---- MODULE Spec2Model ----
(***************************************************************************)
(* Model of dask_cloudprovider/ibm/code_engine.py: the IBM Code Engine     *)
(* role objects (IBMCodeEngine, IBMCodeEngineScheduler,                    *)
(* IBMCodeEngineWorker) and the cluster object (IBMCodeEngineCluster).     *)
(*                                                                         *)
(* The remote service (the Code Engine project that holds the application  *)
(* resources) is the environment: its resources change status and          *)
(* endpoints on their own, and every remote call may raise.  Role          *)
(* instances interleave at the granularity of one remote call, which       *)
(* covers instances that live in different processes (concurrent           *)
(* clusters of one project); the steps of one event loop are a subset.     *)
(*                                                                         *)
(* Text (URLs, addresses) is a sequence of one-character strings, so that  *)
(* str.split and the f-string of the address are computed, not assumed.    *)
(***************************************************************************)
EXTENDS Integers, Sequences, FiniteSets, TLC

\* ------------------------------------------------------------------ bounds

\* Longest endpoint text the provisioning specification enumerates.
MaxUrlLen == 3

\* get_app calls of one create_vm invocation that the call log records; the
\* loop itself goes on beyond it (the log saturates, the loop does not stop).
MaxPolls == 3

\* Mutations applied to the option mappings after construction.
MaxMutations == 2

\* ------------------------------------------------------------------ text

None == "None"

\* An attribute holding no text yet: no text has an element of several
\* characters.
Unset == <<"None">>

UrlAlphabet == {"a", "/"}

RECURSIVE SeqsUpTo(_, _)
SeqsUpTo(S, n) ==
    IF n = 0 THEN {<<>>}
    ELSE LET shorter == SeqsUpTo(S, n - 1)
         IN  shorter \cup {Append(s, c) : s \in {t \in shorter : Len(t) = n - 1}, c \in S}

\* Every text over UrlAlphabet of at most MaxUrlLen characters.
AllUrls == SeqsUpTo(UrlAlphabet, MaxUrlLen)

\* A well-formed endpoint, the fixed field of the provisioning
\* specification's endpoint pairs.
Url == <<"h", ":", "/", "/", "b">>

\* Endpoints longer than the enumerated ones: a second "//", and "///".
LongUrls ==
    { <<"h", ":", "/", "/", "a", "/", "/", "b">>,
      <<"h", ":", "/", "/", "/", "a">> }

\* Position of the leftmost "//" in s at or after position from; 0 when none.
find(s, from) ==
    LET hits == {k \in from..(Len(s) - 1) : s[k] = "/" /\ s[k + 1] = "/"}
    IN  IF hits = {} THEN 0 ELSE CHOOSE k \in hits : \A j \in hits : k <= j

\* str.split("//"): the segments between the non-overlapping occurrences of
\* "//", scanned from the left.
RECURSIVE split(_)
split(s) ==
    LET k == find(s, 1)
    IN  IF k = 0 THEN <<s>>
        ELSE <<SubSeq(s, 1, k - 1)>> \o split(SubSeq(s, k + 2, Len(s)))

\* x.split("//")[1] raises IndexError when there is no second segment.
HasSecondSegment(s) == Len(split(s)) >= 2

SecondSegment(s) == split(s)[2]

\* ------------------------------------------------------- cluster composer

OptionKeys == {"cluster", "config", "image", "region", "project_id", "api_key"}

Projects == {"proj-a", "proj-b"}

\* The values the configuration store may hold under cloudprovider.ibm.
ConfigDefault ==
    [k \in {"image", "region", "project_id", "api_key"} |->
        CASE k = "image" -> "img"
          [] k = "region" -> "eu-de"
          [] k = "project_id" -> "proj-a"
          [] k = "api_key" -> "key"]

Configs ==
    { ConfigDefault,
      [k \in {"region", "api_key"} |-> ConfigDefault[k]] }

\* config.get(key): None for a missing key.
config_get(cfg, k) == IF k \in DOMAIN cfg THEN cfg[k] ELSE None

\* Python truthiness of an optional string argument.
Truthy(x) == x # None /\ x # ""

\* a or b
Or(a, b) == IF Truthy(a) THEN a ELSE b

\* A bug that binds the same mapping object again instead of copying it.
dict_alias(h, ref) == h

\* {**m}: a new mapping object with the contents of m is put on the heap.
\* The heap is the sequence of mapping objects; a reference is an index, and
\* the reference of the newest object is the length of the heap.
dict_copy(h, ref) == Append(h, h[ref])

\* IBMCodeEngineCluster.__init__: the attributes and the three mappings.
IBMCodeEngineCluster_init(image, region, project_id, cfg) ==
    LET img  == Or(image, config_get(cfg, "image"))
        reg  == Or(region, config_get(cfg, "region"))
        proj == Or(project_id, config_get(cfg, "project_id"))
        opts == [k \in OptionKeys |->
                    CASE k = "cluster" -> "self"
                      [] k = "config" -> "config"
                      [] k = "image" -> img
                      [] k = "region" -> reg
                      [] k = "project_id" -> proj
                      [] k = "api_key" -> config_get(cfg, "api_key")]
        h1 == <<opts>>
        h2 == dict_copy(h1, 1)
        so == Len(h2)
        h3 == dict_copy(h2, 1)
        wo == Len(h3)
    IN  [ heap |-> h3,
          obj  |-> [ image |-> img, region |-> reg, project_id |-> proj,
                     options |-> 1, scheduler_options |-> so,
                     worker_options |-> wo,
                     scheduler_internal_ip |-> Unset,
                     scheduler_external_ip |-> Unset,
                     scheduler_port |-> None ] ]

Holders == {"options", "scheduler_options", "worker_options"}

MutationKeys == {"image", "project_id", "extra"}

MutationValues == {"img", "other"}

\* m[k] = v on a mapping
dict_setitem(m, k, v) == [x \in DOMAIN m \cup {k} |-> IF x = k THEN v ELSE m[x]]

\* del m[k]
dict_delitem(m, k) == [x \in DOMAIN m \ {k} |-> m[x]]

\* ------------------------------------------------------------------ state

Instances == {"scheduler", "worker"}

\* name='my-app' of every create_app, get_app and delete_app call
AppName == "my-app"

\* The names a project of the remote service can hold resources under.
Names == {AppName} \cup Instances

Statuses == {"deploying", "failed", "ready"}

\* What a remote call raises (the SDK's ApiException, a transport error).
Errors == {"ApiException", "ConnectionError"}

\* What the wait-for-scheduler routine raises.
WaitErrors == {"TimeoutError"}

IndexError == "IndexError"

NoApp == [status |-> "absent"]

\* <<endpoint, endpoint_internal>> of a resource with a port in its
\* endpoint.
Endpoint == << <<"h", ":", "/", "/", "a", ":", "8">>, <<"h", ":", "/", "/", "b">> >>

\* <<endpoint, endpoint_internal>> of the resources: well-formed, and an
\* endpoint without "//".
Endpoints == { Endpoint, << <<"a">>, <<"h", ":", "/", "/", "b">> >> }

\* The environment of the two-instance system, kept small.
SystemStatuses == {"deploying", "ready"}

SystemEndpoints == { Endpoint }

SystemErrors == {"ApiException"}

\* <<endpoint, endpoint_internal>> of the provisioning specification: every
\* bounded text as the endpoint beside a well-formed endpoint_internal, and
\* the longer texts and one without "//" as endpoint_internal.
ProvisionEndpoints ==
    (AllUrls \X {Url}) \cup ({Url} \X (LongUrls \cup {<<"a">>}))

\* self.port of the scheduler role, as the framework sets it.
Ports == {"8786", "443"}

VARIABLES
    cluster,     \* the IBMCodeEngineCluster object's attributes
    heap,        \* the mapping objects: options, scheduler_options, worker_options
    mutations,   \* number of mutations of the mappings since construction
    mutated,     \* the attribute the last mutation went through
    protocol,    \* cluster.protocol, set by the cluster framework
    role,        \* per role instance: image, region, project_id (constructor)
    apps,        \* remote service: <<project, name>> -> resource or NoApp
    creator,     \* <<project, name>> -> the instance that created it last
    crossed,     \* a poll answered 'ready' from a resource another instance made
    replaced,    \* a create_app has succeeded on a name that was in use
    pc,          \* per role instance: where its create_vm / start stands
    app,         \* per role instance: create_vm's local variable app
    exc,         \* per role instance: the exception its last invocation raised
    result,      \* per role instance: what its last create_vm returned
    calls,       \* per role instance: remote calls of its last create_vm / start
    elided,      \* per role instance: the call log dropped its oldest polls
    polled,      \* per role instance: the response of the get_app under way
    dcalls,      \* per role instance: remote calls of its last destroy_vm
    sched,       \* the scheduler role's internal_ip, external_ip, address, status, port
    steps        \* milestones the scheduler role's current start has passed

vars ==
    << cluster, heap, mutations, mutated, protocol, role, apps, creator,
       crossed, replaced, pc, app, exc, result, calls, elided, polled, dcalls, sched,
       steps >>

composeVars == << cluster, heap, mutations, mutated >>

roleVars == << pc, app, exc, result, calls, elided, polled >>

\* The role objects are built from the option mappings:
\* IBMCodeEngine.__init__ stores image, region and project_id.
IBMCodeEngine_init(opts) ==
    [ image |-> opts["image"], region |-> opts["region"],
      project_id |-> opts["project_id"] ]

\* The state after IBMCodeEngineCluster(image, region, project_id) under
\* configuration cfg, with one scheduler and one worker role object built
\* and nothing started.
InitWith(image, region, project_id, cfg, p) ==
    LET c == IBMCodeEngineCluster_init(image, region, project_id, cfg)
    IN  /\ cluster = c.obj
        /\ heap = c.heap
        /\ mutations = 0
        /\ mutated = None
        /\ protocol = <<"t", "c", "p">>
        /\ role = [i \in Instances |->
                     IBMCodeEngine_init(c.heap[IF i = "scheduler"
                                     THEN c.obj.scheduler_options
                                     ELSE c.obj.worker_options])]
        /\ apps = [k \in Projects \X Names |-> NoApp]
        /\ creator = [k \in Projects \X Names |-> None]
        /\ crossed = FALSE
        /\ replaced = FALSE
        /\ pc = [i \in Instances |-> "idle"]
        /\ app = [i \in Instances |-> NoApp]
        /\ exc = [i \in Instances |-> None]
        /\ result = [i \in Instances |-> <<>>]
        /\ calls = [i \in Instances |-> <<>>]
        /\ elided = [i \in Instances |-> FALSE]
        /\ polled = [i \in Instances |-> NoApp]
        /\ dcalls = [i \in Instances |-> <<>>]
        /\ sched = [ internal_ip |-> Unset, external_ip |-> Unset,
                     address |-> Unset, status |-> "not_started", port |-> p ]
        /\ steps = <<>>

Init == InitWith(None, None, None, ConfigDefault, "8786")

\* ------------------------------------------------------- remote service

\* A bug that names the resource after the role instance.
UniqueResourceName(i) == i

\* The resource name every call of instance i passes.
ResourceName(i) == AppName

Key(i) == <<role[i].project_id, ResourceName(i)>>

Call(op, i, res) ==
    [ op |-> op, project_id |-> role[i].project_id, name |-> ResourceName(i),
      result |-> res ]

Polls(c) == SelectSeq(c, LAMBDA e : e.op = "get_app")

\* The call log keeps the create call and the last MaxPolls polls.
LogPoll(c, e) ==
    IF Len(Polls(c)) < MaxPolls THEN Append(c, e)
    ELSE <<c[1]>> \o SubSeq(c, 3, Len(c)) \o <<e>>

\* The remote resource changes on its own: status and endpoints.
RemoteChange(k, st, ep) ==
    /\ apps[k] # NoApp
    /\ LET new == [apps[k] EXCEPT !.status = st, !.endpoint = ep[1],
                                  !.endpoint_internal = ep[2]]
       IN  /\ new # apps[k]
           /\ apps' = [apps EXCEPT ![k] = new]
    /\ UNCHANGED << composeVars, protocol, role, creator, crossed, replaced, roleVars,
                    dcalls, sched, steps >>

\* ------------------------------------------------------------ create_vm

\* The states in which the framework may call create_vm (the worker) or
\* start (the scheduler) on a role instance: no call of it is under way.
Callable(i) ==
    IF i = "scheduler" THEN {"idle", "raised", "started"}
    ELSE {"idle", "returned", "raised"}

InLoop == {"created", "polling"}

\* create_app succeeds: the service holds the resource and answers with it.
\* Whether the service accepts a name that is in use is left open: it may.
create_app_ok(i, st, ep) ==
    /\ pc[i] \in Callable(i)
    /\ LET r == [ status |-> st, endpoint |-> ep[1],
                  endpoint_internal |-> ep[2] ]
       IN  /\ apps' = [apps EXCEPT ![Key(i)] = r]
           /\ app' = [app EXCEPT ![i] = r]
    /\ creator' = [creator EXCEPT ![Key(i)] = i]
    /\ replaced' = (replaced \/ apps[Key(i)] # NoApp)
    /\ pc' = [pc EXCEPT ![i] = "created"]
    /\ exc' = [exc EXCEPT ![i] = None]
    /\ result' = [result EXCEPT ![i] = <<>>]
    /\ calls' = [calls EXCEPT ![i] = <<Call("create_app", i, "ok")>>]
    /\ elided' = [elided EXCEPT ![i] = FALSE]
    /\ polled' = [polled EXCEPT ![i] = NoApp]
    /\ dcalls' = [dcalls EXCEPT ![i] = <<>>]
    /\ steps' = IF i = "scheduler" THEN <<>> ELSE steps
    /\ UNCHANGED << composeVars, protocol, role, crossed, sched >>

\* A bug that catches the error of create_app and goes on to poll.
create_app_caught(i, e) ==
    /\ pc[i] \in Callable(i)
    /\ pc' = [pc EXCEPT ![i] = "created"]
    /\ exc' = [exc EXCEPT ![i] = None]
    /\ result' = [result EXCEPT ![i] = <<>>]
    /\ calls' = [calls EXCEPT ![i] = <<Call("create_app", i, e)>>]
    /\ elided' = [elided EXCEPT ![i] = FALSE]
    /\ polled' = [polled EXCEPT ![i] = NoApp]
    /\ app' = [app EXCEPT ![i] = NoApp]
    /\ dcalls' = [dcalls EXCEPT ![i] = <<>>]
    /\ steps' = IF i = "scheduler" THEN <<>> ELSE steps
    /\ UNCHANGED << composeVars, protocol, role, apps, creator, crossed,
                    replaced, sched >>

\* create_app raises e: nothing catches it in create_vm, start_scheduler or
\* start, so the invocation ends with e.
create_app_raises(i, e) ==
    /\ pc[i] \in Callable(i)
    /\ pc' = [pc EXCEPT ![i] = "raised"]
    /\ exc' = [exc EXCEPT ![i] = e]
    /\ result' = [result EXCEPT ![i] = <<>>]
    /\ calls' = [calls EXCEPT ![i] = <<Call("create_app", i, e)>>]
    /\ elided' = [elided EXCEPT ![i] = FALSE]
    /\ polled' = [polled EXCEPT ![i] = NoApp]
    /\ app' = [app EXCEPT ![i] = NoApp]
    /\ dcalls' = [dcalls EXCEPT ![i] = <<>>]
    /\ steps' = IF i = "scheduler" THEN <<>> ELSE steps
    /\ UNCHANGED << composeVars, protocol, role, apps, creator, crossed,
                    replaced, sched >>

\* A bug that keeps the previous value of app instead of the new response.
get_result_stale(old, r) == old

\* app = response.get_result() of the loop
get_result(old, r) == r

\* A bug that gives up after the second poll.
LoopExitTimeout(i, status) ==
    IF status = "ready" \/ Len(Polls(calls[i])) >= 1
    THEN "parse" ELSE "polling"

\* A bug that also leaves the loop when the resource has failed.
LoopExitOnFailed(i, status) ==
    IF status \in {"ready", "failed"} THEN "parse" ELSE "polling"

\* if app["status"] == "ready": break; otherwise sleep and poll again
LoopExit(i, status) == IF status = "ready" THEN "parse" ELSE "polling"

\* One iteration of the loop: get_app answers with the resource as it is.
get_app_ok(i) ==
    /\ pc[i] \in InLoop
    /\ apps[Key(i)] # NoApp
    /\ LET r == apps[Key(i)]
           a == get_result(app[i], r)
       IN  /\ app' = [app EXCEPT ![i] = a]
           /\ polled' = [polled EXCEPT ![i] = r]
           /\ calls' = [calls EXCEPT ![i] = LogPoll(@, Call("get_app", i, r.status))]
           /\ pc' = [pc EXCEPT ![i] = LoopExit(i, a.status)]
           /\ crossed' = (crossed \/ (r.status = "ready" /\ creator[Key(i)] # i))
    /\ elided' = [elided EXCEPT ![i] = @ \/ Len(Polls(calls[i])) >= MaxPolls]
    /\ UNCHANGED << composeVars, protocol, role, apps, creator, replaced, exc,
                    result, dcalls, sched, steps >>

\* get_app raises e (always so when the resource is gone): uncaught.
get_app_raises(i, e) ==
    /\ pc[i] \in InLoop
    /\ pc' = [pc EXCEPT ![i] = "raised"]
    /\ exc' = [exc EXCEPT ![i] = e]
    /\ app' = [app EXCEPT ![i] = NoApp]
    /\ polled' = [polled EXCEPT ![i] = NoApp]
    /\ calls' = [calls EXCEPT ![i] = LogPoll(@, Call("get_app", i, e))]
    /\ elided' = [elided EXCEPT ![i] = @ \/ Len(Polls(calls[i])) >= MaxPolls]
    /\ UNCHANGED << composeVars, protocol, role, apps, creator, crossed, replaced, result,
                    dcalls, sched, steps >>

CanParse(r) ==
    HasSecondSegment(r.endpoint_internal) /\ HasSecondSegment(r.endpoint)

\* A bug that returns the pair in the other order.
external_internal_url(r) ==
    << SecondSegment(r.endpoint), SecondSegment(r.endpoint_internal) >>

\* internal_url, external_url of the return statement
internal_external_url(r) ==
    << SecondSegment(r.endpoint_internal), SecondSegment(r.endpoint) >>

\* The worker's create_vm leaves the loop: it returns the pair, or the
\* indexing of a text without "//" raises.
create_vm_return(i) ==
    /\ i # "scheduler"
    /\ pc[i] = "parse"
    /\ IF CanParse(app[i])
       THEN /\ result' = [result EXCEPT ![i] = internal_external_url(app[i])]
            /\ pc' = [pc EXCEPT ![i] = "returned"]
            /\ exc' = exc
       ELSE /\ result' = result
            /\ pc' = [pc EXCEPT ![i] = "raised"]
            /\ exc' = [exc EXCEPT ![i] = IndexError]
    /\ app' = [app EXCEPT ![i] = NoApp]
    /\ polled' = [polled EXCEPT ![i] = NoApp]
    /\ UNCHANGED << composeVars, protocol, role, apps, creator, crossed, replaced, calls,
                    elided, dcalls, sched, steps >>

\* ------------------------------------------------------ scheduler role

\* A bug that leaves the port to the endpoint.
AddressOfEndpoint(proto, external_ip) ==
    proto \o <<":", "/", "/">> \o external_ip

\* f"{self.cluster.protocol}://{self.external_ip}:443"
Address(proto, external_ip) ==
    proto \o <<":", "/", "/">> \o external_ip \o <<":", "4", "4", "3">>

\* create_vm returns into start_scheduler, which stores the pair and
\* composes the address, and then awaits wait_for_scheduler; or the
\* indexing in create_vm raises, out of start.
start_scheduler_address ==
    LET i == "scheduler" IN
    /\ pc[i] = "parse"
    /\ IF CanParse(app[i])
       THEN /\ result' = [result EXCEPT ![i] = internal_external_url(app[i])]
            /\ sched' = [sched EXCEPT
                           !.internal_ip = internal_external_url(app[i])[1],
                           !.external_ip = internal_external_url(app[i])[2],
                           !.address =
                               Address(protocol, internal_external_url(app[i])[2])]
            /\ pc' = [pc EXCEPT ![i] = "waiting"]
            /\ steps' = Append(steps, "address")
            /\ exc' = exc
       ELSE /\ UNCHANGED << result, sched, steps >>
            /\ pc' = [pc EXCEPT ![i] = "raised"]
            /\ exc' = [exc EXCEPT ![i] = IndexError]
    /\ app' = [app EXCEPT ![i] = NoApp]
    /\ polled' = [polled EXCEPT ![i] = NoApp]
    /\ UNCHANGED << composeVars, protocol, role, apps, creator, crossed, replaced, calls,
                    elided, dcalls >>

\* wait_for_scheduler returns: the scheduler process answers.
wait_for_scheduler_returns ==
    /\ pc["scheduler"] = "waiting"
    /\ pc' = [pc EXCEPT !["scheduler"] = "publish"]
    /\ steps' = Append(steps, "waited")
    /\ UNCHANGED << composeVars, protocol, role, apps, creator, crossed, replaced, app,
                    exc, result, calls, elided, polled, dcalls, sched >>

\* A bug that rolls the resource back when the wait fails.
wait_for_scheduler_raises_rollback(e) ==
    /\ pc["scheduler"] = "waiting"
    /\ pc' = [pc EXCEPT !["scheduler"] = "raised"]
    /\ exc' = [exc EXCEPT !["scheduler"] = e]
    /\ apps' = [apps EXCEPT ![Key("scheduler")] = NoApp]
    /\ calls' = [calls EXCEPT !["scheduler"] =
                   Append(@, Call("delete_app", "scheduler", "ok"))]
    /\ UNCHANGED << composeVars, protocol, role, creator, crossed, replaced, app,
                    result, elided, polled, dcalls, sched, steps >>

\* wait_for_scheduler raises: uncaught in start_scheduler and start.
wait_for_scheduler_raises(e) ==
    /\ pc["scheduler"] = "waiting"
    /\ pc' = [pc EXCEPT !["scheduler"] = "raised"]
    /\ exc' = [exc EXCEPT !["scheduler"] = e]
    /\ UNCHANGED << composeVars, protocol, role, apps, creator, crossed, replaced, app,
                    result, calls, elided, polled, dcalls, sched, steps >>

\* A bug that publishes while wait_for_scheduler is still awaited.
start_scheduler_published_early == pc["scheduler"] \in {"waiting", "publish"}

\* The three assignments to the cluster follow the await of
\* wait_for_scheduler.
start_scheduler_published_after == pc["scheduler"] = "publish"

\* self.cluster.scheduler_internal_ip / _external_ip / _port
start_scheduler_publish ==
    /\ start_scheduler_published_after
    /\ cluster' = [cluster EXCEPT
                     !.scheduler_internal_ip = sched.internal_ip,
                     !.scheduler_external_ip = sched.external_ip,
                     !.scheduler_port = sched.port]
    /\ pc' = [pc EXCEPT !["scheduler"] = "published"]
    /\ steps' = Append(steps, "published")
    /\ UNCHANGED << heap, mutations, mutated, protocol, role, apps, creator,
                    crossed, replaced, app, exc, result, calls, elided, polled, dcalls,
                    sched >>

\* start: self.status = Status.running, once start_scheduler has returned
start_running ==
    /\ pc["scheduler"] = "published"
    /\ sched' = [sched EXCEPT !.status = "running"]
    /\ pc' = [pc EXCEPT !["scheduler"] = "started"]
    /\ steps' = Append(steps, "running")
    /\ UNCHANGED << composeVars, protocol, role, apps, creator, crossed, replaced, app,
                    exc, result, calls, elided, polled, dcalls >>

\* ----------------------------------------------------------- destroy_vm

\* The states in which destroy_vm may be called on a role instance: none
\* of its own coroutines is between two suspension points.
Destroyable(i) == Callable(i) \cup {"waiting"}

\* A bug that checks the resource before it deletes it.
DeleteCallsChecked(i, res) ==
    << Call("get_app", i, "ok"), Call("delete_app", i, res) >>

\* The remote calls of one destroy_vm.
DeleteCalls(i, res) == << Call("delete_app", i, res) >>

\* delete_app succeeds: the resource of that name is gone, whoever made it.
destroy_vm_ok(i) ==
    /\ pc[i] \in Destroyable(i)
    /\ apps[Key(i)] # NoApp
    /\ apps' = [apps EXCEPT ![Key(i)] = NoApp]
    /\ dcalls' = [dcalls EXCEPT ![i] = DeleteCalls(i, "ok")]
    /\ UNCHANGED << composeVars, protocol, role, creator, crossed, replaced, roleVars,
                    sched, steps >>

\* delete_app raises e: uncaught, nothing else is done.
destroy_vm_raises(i, e) ==
    /\ pc[i] \in Destroyable(i)
    /\ dcalls' = [dcalls EXCEPT ![i] = DeleteCalls(i, e)]
    /\ UNCHANGED << composeVars, protocol, role, apps, creator, crossed, replaced,
                    roleVars, sched, steps >>

\* ------------------------------------------------- mutation of the mappings

\* mapping[k] = v through one of the cluster's three attributes
setitem(holder, k, v) ==
    /\ mutations < MaxMutations
    /\ heap' = [heap EXCEPT ![cluster[holder]] = dict_setitem(@, k, v)]
    /\ mutations' = mutations + 1
    /\ mutated' = holder
    /\ UNCHANGED << cluster, protocol, role, apps, creator, crossed, replaced, roleVars,
                    dcalls, sched, steps >>

\* del mapping[k] through one of the cluster's three attributes
delitem(holder, k) ==
    /\ mutations < MaxMutations
    /\ k \in DOMAIN heap[cluster[holder]]
    /\ heap' = [heap EXCEPT ![cluster[holder]] = dict_delitem(@, k)]
    /\ mutations' = mutations + 1
    /\ mutated' = holder
    /\ UNCHANGED << cluster, protocol, role, apps, creator, crossed, replaced, roleVars,
                    dcalls, sched, steps >>

\* ------------------------------------------------------- specifications

\* The remote calls of create_vm on instance i, in an environment of
\* statuses S, endpoint pairs E and errors X.
create_vm(i, S, E, X) ==
    \/ \E st \in S, ep \in E : create_app_ok(i, st, ep)
    \/ \E e \in X : create_app_raises(i, e)
    \/ get_app_ok(i)
    \/ \E e \in X : get_app_raises(i, e)

Remote(S, E) ==
    \E k \in DOMAIN apps, st \in S, ep \in E : RemoteChange(k, st, ep)

start ==
    \/ start_scheduler_address
    \/ wait_for_scheduler_returns
    \/ \E e \in WaitErrors : wait_for_scheduler_raises(e)
    \/ start_scheduler_publish
    \/ start_running

destroy_vm(i, X) ==
    \/ destroy_vm_ok(i)
    \/ \E e \in X : destroy_vm_raises(i, e)

\* The whole system: one cluster, its scheduler role and a worker role, and
\* the remote service.
Next ==
    \/ \E i \in Instances : create_vm(i, SystemStatuses, SystemEndpoints, SystemErrors)
    \/ \E i \in Instances : create_vm_return(i)
    \/ start
    \/ \E i \in Instances : destroy_vm(i, SystemErrors)
    \/ Remote(SystemStatuses, SystemEndpoints)

Spec == Init /\ [][Next]_vars

\* One role instance calling create_vm, over every bounded endpoint text.
NextProvision ==
    \/ create_vm("worker", SystemStatuses, ProvisionEndpoints, Errors)
    \/ create_vm_return("worker")
    \/ Remote(SystemStatuses, ProvisionEndpoints)

SpecProvision == Init /\ [][NextProvision]_vars

\* One role instance calling create_vm, its loop and its return scheduled
\* fairly: the coroutine goes on once the sleep is over.
NextLoop ==
    \/ create_vm("worker", Statuses, Endpoints, Errors)
    \/ create_vm_return("worker")
    \/ Remote(Statuses, Endpoints)

get_app(i) == get_app_ok(i) \/ \E e \in Errors : get_app_raises(i, e)

FairProvision ==
    /\ Init
    /\ [][NextLoop]_vars
    /\ WF_vars(get_app("worker"))
    /\ WF_vars(create_vm_return("worker"))

\* The scheduler role alone: start, and destroy_vm.
InitScheduler ==
    \E project_id \in {None, "proj-b"}, p \in Ports :
        InitWith(None, None, project_id, ConfigDefault, p)

NextScheduler ==
    \/ create_vm("scheduler", Statuses, Endpoints, Errors)
    \/ start
    \/ destroy_vm("scheduler", Errors)
    \/ Remote(Statuses, Endpoints)

SpecScheduler == InitScheduler /\ [][NextScheduler]_vars

\* The cluster object, over the arguments and configurations, and the
\* mutations of its mappings.
InitCompose ==
    \E image \in {None, "", "img2"}, region \in {None, "us"},
       project_id \in {None, "proj-b"}, cfg \in Configs :
        InitWith(image, region, project_id, cfg, "8786")

NextCompose ==
    \/ \E h \in Holders, k \in MutationKeys, v \in MutationValues : setitem(h, k, v)
    \/ \E h \in Holders, k \in MutationKeys : delitem(h, k)

SpecCompose == InitCompose /\ [][NextCompose]_vars

\* ------------------------------------------------------------- claims

Last(c) == c[Len(c)]

IsPrefix(a, b) == Len(a) <= Len(b) /\ a = SubSeq(b, 1, Len(a))

\* The states of an instance whose create_vm has left the loop by break.
PastLoop == {"parse", "returned", "waiting", "publish", "published", "started"}

\* C1: create_vm polls at least once and until the first 'ready' response:
\* the get_app responses of one invocation are non-ready ones followed, once
\* the loop is left, by exactly one 'ready' one, the last call of the
\* invocation; while the log is complete it is the create call followed by
\* exactly these polls.
C1_PollsUntilFirstReady ==
    \A i \in Instances :
        LET g == Polls(calls[i])
        IN  /\ \A k \in 1..(Len(g) - 1) : g[k].result \in Statuses \ {"ready"}
            /\ pc[i] \in PastLoop =>
                   /\ Len(g) >= 1
                   /\ Last(g).result = "ready"
                   /\ Last(calls[i]) = Last(g)
            /\ pc[i] = "polling" =>
                   /\ Len(g) >= 1
                   /\ Last(g).result \in Statuses \ {"ready"}
            /\ pc[i] = "created" => Len(g) = 0
            /\ (calls[i] # <<>> /\ ~elided[i]) =>
                   /\ calls[i][1].op = "create_app"
                   /\ Len(calls[i]) = 1 + Len(g)

\* Three polls, the third one 'ready', and create_vm has returned into
\* start_scheduler.
C1_Witness ==
    /\ pc["scheduler"] = "waiting"
    /\ ~elided["scheduler"]
    /\ Len(Polls(calls["scheduler"])) = 3
    /\ Polls(calls["scheduler"])[1].result = "deploying"
    /\ Polls(calls["scheduler"])[2].result = "failed"
    /\ Polls(calls["scheduler"])[3].result = "ready"

\* C2: when create_app raises, the invocation issues no further call
\* (no get_app, no delete_app) and ends with that very error.
C2_CreateErrorPropagates ==
    \A i \in Instances :
        (calls[i] # <<>> /\ calls[i][1].op = "create_app"
                         /\ calls[i][1].result \in Errors) =>
            /\ Len(calls[i]) = 1
            /\ pc[i] = "raised"
            /\ exc[i] = calls[i][1].result
            /\ app[i] = NoApp
            /\ result[i] = <<>>

C2_Witness ==
    /\ pc["worker"] = "raised"
    /\ calls["worker"] = << Call("create_app", "worker", "ConnectionError") >>
    /\ exc["worker"] = "ConnectionError"

SlashSlashAt(u, k) == k \in 1..(Len(u) - 1) /\ u[k] = "/" /\ u[k + 1] = "/"

\* r is the segment of u after its first "//": it starts behind the first
\* "//" and ends at the end of u or before the next "//".
IsSegmentAfterScheme(u, r) ==
    \E k \in 1..(Len(u) - 1) :
        /\ SlashSlashAt(u, k)
        /\ \A j \in 1..(k - 1) : ~SlashSlashAt(u, j)
        /\ \E m \in (k + 1)..Len(u) :
              /\ r = SubSeq(u, k + 2, m)
              /\ m = Len(u) \/ SlashSlashAt(u, m + 1)
              /\ \A j \in (k + 2)..m : ~SlashSlashAt(u, j)

\* C3: when create_vm returns, the pair is (internal, external): the
\* segments after the first "//" of endpoint_internal and of endpoint of the
\* last get_app response, which is the 'ready' one.
C3_ReturnsEndpointsOfReadyResponse ==
    [][ \A i \in Instances :
          (pc[i] = "parse" /\ pc'[i] \in {"returned", "waiting"}) =>
              /\ polled[i].status = "ready"
              /\ Len(result'[i]) = 2
              /\ IsSegmentAfterScheme(polled[i].endpoint_internal, result'[i][1])
              /\ IsSegmentAfterScheme(polled[i].endpoint, result'[i][2]) ]_vars

\* create_vm has returned after a non-ready poll, with two different texts.
C3_Witness ==
    /\ pc["worker"] = "returned"
    /\ Len(Polls(calls["worker"])) >= 2
    /\ result["worker"][1] # result["worker"][2]
    /\ result["worker"][2] = <<"a">>

\* C4: every destroy_vm issues exactly one call, delete_app with the
\* instance's stored project_id and the name 'my-app'.
C4_DestroyIssuesOneDelete ==
    \A i \in Instances :
        dcalls[i] # <<>> =>
            /\ Len(dcalls[i]) = 1
            /\ dcalls[i][1].op = "delete_app"
            /\ dcalls[i][1].project_id = role[i].project_id
            /\ dcalls[i][1].project_id = cluster.project_id
            /\ dcalls[i][1].name = "my-app"

\* destroy_vm was called after a start whose create_app had failed.
C4_Witness ==
    /\ pc["scheduler"] = "raised"
    /\ calls["scheduler"][1].result \in Errors
    /\ dcalls["scheduler"] # <<>>
    /\ role["scheduler"].project_id = "proj-b"

Content(holder) == heap[cluster[holder]]

\* C5: scheduler_options, worker_options and options are three mapping
\* objects, equal in content when the cluster is constructed, and a
\* mutation through one of them leaves the content of the other two as it
\* was.
C5_OptionMappingsIndependent ==
    /\ [](/\ cluster.scheduler_options # cluster.worker_options
          /\ cluster.scheduler_options # cluster.options
          /\ cluster.worker_options # cluster.options
          /\ mutations = 0 =>
                /\ Content("scheduler_options") = Content("worker_options")
                /\ Content("scheduler_options") = Content("options"))
    /\ [][ \A h \in Holders :
             (mutations' = mutations + 1 /\ mutated' = h) =>
                 \A g \in Holders \ {h} : Content(g)' = Content(g) ]_vars

\* scheduler_options was mutated and now differs from the other two.
C5_Witness ==
    /\ mutations > 0
    /\ "extra" \in DOMAIN Content("scheduler_options")
    /\ "extra" \notin DOMAIN Content("worker_options")
    /\ Content("worker_options") = Content("options")

\* a is the text p, "://", h, ":443"
IsAddress(a, p, h) ==
    /\ Len(a) = Len(p) + 3 + Len(h) + 4
    /\ SubSeq(a, 1, Len(p)) = p
    /\ SubSeq(a, Len(p) + 1, Len(p) + 3) = <<":", "/", "/">>
    /\ SubSeq(a, Len(p) + 4, Len(p) + 3 + Len(h)) = h
    /\ SubSeq(a, Len(a) - 3, Len(a)) = <<":", "4", "4", "3">>

\* C6: the scheduler role's address is protocol://external:443, where
\* external is the external value create_vm returned.
C6_AddressUsesPort443 ==
    /\ sched.address # Unset =>
           IsAddress(sched.address, protocol, sched.external_ip)
    /\ pc["scheduler"] \in {"waiting", "publish", "published", "started"} =>
           /\ sched.address # Unset
           /\ sched.external_ip = result["scheduler"][2]
           /\ sched.internal_ip = result["scheduler"][1]

\* Started, with an endpoint that names port 8 and a published port 8786.
C6_Witness ==
    /\ pc["scheduler"] = "started"
    /\ sched.status = "running"
    /\ sched.external_ip = <<"a", ":", "8">>
    /\ cluster.scheduler_port = "8786"

Milestones == <<"address", "waited", "published", "running">>

\* C7: the steps of one start follow in the order create, polls until
\* ready, address, wait, publish, running; running implies published, and
\* the cluster fields are written only once the wait has returned.
C7_StartOrder ==
    /\ IsPrefix(steps, Milestones)
    /\ steps # <<>> =>
           /\ calls["scheduler"][1] = Call("create_app", "scheduler", "ok")
           /\ Last(calls["scheduler"]) = Call("get_app", "scheduler", "ready")
           /\ sched.address # Unset
    /\ Len(steps) >= 3 =>
           /\ cluster.scheduler_internal_ip = sched.internal_ip
           /\ cluster.scheduler_external_ip = sched.external_ip
           /\ cluster.scheduler_port = sched.port
    /\ sched.status = "running" =>
           /\ cluster.scheduler_internal_ip # Unset
           /\ cluster.scheduler_external_ip # Unset
           /\ cluster.scheduler_port # None
    /\ cluster.scheduler_port # None =>
           (sched.status = "running" \/ Len(steps) >= 3)

C7_Witness ==
    /\ steps = Milestones
    /\ sched.status = "running"
    /\ cluster.scheduler_internal_ip = <<"b">>

\* The step in which the scheduler's start ends with an exception.
StartRaises ==
    /\ pc'["scheduler"] = "raised"
    /\ pc["scheduler"] # "raised" \/ calls'["scheduler"] # calls["scheduler"]

\* C8: a start that raises ends with the exception, leaves status and the
\* cluster fields as they were, and issues no delete: the remote resources
\* stay as they are.
C8_StartFailureNoRollback ==
    /\ [](pc["scheduler"] = "raised" =>
            /\ exc["scheduler"] \in Errors \cup WaitErrors \cup {IndexError}
            /\ Len(steps) <= 1
            /\ \A k \in 1..Len(calls["scheduler"]) :
                   calls["scheduler"][k].op # "delete_app")
    /\ [][ StartRaises =>
             /\ sched' = sched
             /\ cluster' = cluster
             /\ apps' = apps ]_vars

\* The wait has failed on a first start: the resource is still there.
C8_Witness ==
    /\ pc["scheduler"] = "raised"
    /\ exc["scheduler"] = "TimeoutError"
    /\ apps[Key("scheduler")] # NoApp
    /\ sched.status = "not_started"
    /\ cluster.scheduler_port = None

ResourceReady(i) == apps[Key(i)] # NoApp /\ apps[Key(i)].status = "ready"

\* C9: the loop has no exit but the 'ready' response (and a raising
\* get_app); when the resource stays 'ready' the loop is left, and once it
\* is left on 'ready', create_vm returns or its indexing raises.
C9_LoopUnbounded ==
    /\ [][ \A i \in Instances :
             pc[i] \in InLoop =>
                 /\ pc'[i] \in InLoop \cup {"parse", "raised"}
                 /\ pc'[i] = "parse" => polled'[i].status = "ready"
                 /\ pc'[i] = "raised" =>
                        /\ exc'[i] \in Errors
                        /\ Last(calls'[i]) = Call("get_app", i, exc'[i]) ]_vars
    /\ (<>[]ResourceReady("worker")) =>
           ((pc["worker"] \in InLoop) ~> (pc["worker"] \in {"parse", "raised"}))
    /\ (pc["worker"] = "parse") ~>
           (pc["worker"] = "returned"
                \/ (pc["worker"] = "raised" /\ exc["worker"] = IndexError))

\* The loop is still polling after more polls than the log holds.
C9_Witness ==
    /\ pc["worker"] = "polling"
    /\ elided["worker"]
    /\ \A k \in 1..Len(Polls(calls["worker"])) :
           Polls(calls["worker"])[k].result \in {"deploying", "failed"}

AllCalls == UNION { {calls[i][k] : k \in 1..Len(calls[i])} \cup
                    {dcalls[i][k] : k \in 1..Len(dcalls[i])} : i \in Instances }

\* C10: every remote call of every role instance names the same resource.
C10_OneSharedResourceName ==
    /\ \A c \in AllCalls : c.name = AppName
    /\ \A i, j \in Instances :
           role[i].project_id = role[j].project_id => Key(i) = Key(j)

\* The scheduler's poll was answered 'ready' by a resource the worker had
\* made, and the scheduler's destroy_vm has deleted the resource the worker
\* made and whose create_vm has returned.
C10_Witness ==
    /\ crossed
    /\ ~replaced
    /\ pc["worker"] = "returned"
    /\ creator[Key("worker")] = "worker"
    /\ apps[Key("worker")] = NoApp
    /\ dcalls["worker"] = <<>>
    /\ dcalls["scheduler"] = DeleteCalls("scheduler", "ok")

====
